---- MODULE Spec2Model ----
(***************************************************************************)
(* Error Analyzer (src/src/extension.ts): the extension host's view        *)
(* provider, the webview document's script, and the two message channels   *)
(* between them.                                                           *)
(*                                                                         *)
(* Texts are modelled by their structure: a source line is a sequence of   *)
(* one-character strings, the errorContext string is the record of the     *)
(* file name it starts with and the sequence of its "Error k / Line n"     *)
(* blocks, and the text of an element is a record of its fixed wording and *)
(* the values interpolated into it.                                        *)
(*                                                                         *)
(* Assumptions about the platform (not visible in the source): every       *)
(* diagnostic's start line is a line of the document; a webview document   *)
(* that is replaced loses its script state, its timers and its pending     *)
(* promises; the channels are FIFO.                                        *)
(***************************************************************************)
EXTENDS Integers, Sequences, FiniteSets, TLC

\* ------------------------------------------------------------------ bounds
\* Longest diagnostics list the diagnostics query returns.
MaxDiags == 2
\* Most analysis requests under way at once (sent, replied or analysing).
MaxPending == 2

\* ------------------------------------------------------- program constants
MAX_ATTEMPTS == 3

\* vscode.DiagnosticSeverity
Severities == {"Error", "Warning", "Information", "Hint"}

\* String.prototype.trim strips these at both ends.
WhiteSpace == {" ", "\t"}

\* ---------------------------------------------------------------- inputs
\* The lines of the active document: leading, inner and trailing blanks.
DocLines == << <<" ", "a", " ", "b", " ">>, <<"\t", "c">> >>

\* document.fileName, as its path components.
DocFileName == <<"src", "main.ts">>

Diagnostics == [severity : Severities, line : 0..(Len(DocLines) - 1), message : {"m"}]

SeqsUpTo(S, n) == UNION {[1..k -> S] : k \in 0..n}

Documents ==
  {[fileName |-> DocFileName, lines |-> DocLines, diagnostics |-> ds] :
     ds \in SeqsUpTo(Diagnostics, MaxDiags)}

\* vscode.window.activeTextEditor: undefined (<<>>) or one editor (<<document>>).
Editors == {<<>>} \cup {<<d>> : d \in Documents}

\* The editors whose document has at most one diagnostic.
FewDiagnosticsEditors ==
  {<<>>} \cup {<<[fileName |-> DocFileName, lines |-> DocLines, diagnostics |-> ds]>> :
                 ds \in {<<>>} \cup {<<d>> : d \in Diagnostics}}

\* Texts the generator may return, and messages of the errors it may throw.
GeneratedTexts == {"g"}
ErrorMessages == {"e"}

\* --------------------------------------------------------------- state
VARIABLES
  view,          \* host: this._view is set
  toHost,        \* messages posted by the webview, not yet handled by the host
  toWeb,         \* messages posted by the host, not yet dispatched in the webview
  lastCall,      \* history: what the latest onDidReceiveMessage call read and posted
  scriptLoaded,  \* webview: the module script has run
  generator,     \* webview: generator has been assigned
  isInitialized,
  initAttempts,
  btnDisabled,   \* analyzeBtn.disabled
  btnText,       \* analyzeBtn.textContent
  btnOnclick,    \* analyzeBtn.onclick: "analyzeErrors" or "retry"
  statusEl,      \* statusEl.innerHTML
  resultEl,      \* resultEl.textContent
  pipelineCalls, \* pending promises of pipeline(...)
  retryTimers,   \* pending setTimeout(() => initModel(), 2000)
  clearTimers,   \* pending setTimeout(() => statusEl.innerHTML = '', 3000)
  analyses,      \* errorContexts of the pending generator(...) calls
  retryClicks    \* history: clicks on the button while its handler was the retry one

hostVars == <<view, toHost, toWeb, lastCall>>
domVars == <<btnDisabled, btnText, btnOnclick, statusEl, resultEl>>
scriptVars == <<scriptLoaded, generator, isInitialized, initAttempts,
                pipelineCalls, retryTimers, clearTimers, analyses, retryClicks>>
vars == <<hostVars, domVars, scriptVars>>

\* ----------------------------------------------------------- text helpers
RECURSIVE TrimStart(_)
TrimStart(s) ==
  IF s = <<>> THEN <<>>
  ELSE IF Head(s) \in WhiteSpace THEN TrimStart(Tail(s)) ELSE s

RECURSIVE TrimEnd(_)
TrimEnd(s) ==
  IF s = <<>> THEN <<>>
  ELSE IF s[Len(s)] \in WhiteSpace THEN TrimEnd(SubSeq(s, 1, Len(s) - 1)) ELSE s

Trim(s) == TrimEnd(TrimStart(s))

Basename(p) == p[Len(p)]

LineAt(document, line) == document.lines[line + 1]

Status(text, n) == [text |-> text, n |-> n]

NoContext == [file |-> "", blocks |-> <<>>]

Result(text, explanation, errorContext) ==
  [text |-> text, explanation |-> explanation, errorContext |-> errorContext]

PlainResult(text) == Result(text, "", NoContext)

NoActiveFile == "No active file found. Please open a file first."
NoErrorsFound == "No errors found in the current file!"
PleaseWait == "Please wait for model to initialize..."

\* ------------------------------------------------------------- the host
ShowResult(text) == [command |-> "showResult", text |-> text, errorContext |-> NoContext]

AnalyzeWithAI(errorContext) ==
  [command |-> "analyzeWithAI", text |-> "", errorContext |-> errorContext]

AnalyzeErrorsMsg == [command |-> "analyzeErrors"]

IsErrorOrWarning(d) == d.severity \in {"Error", "Warning"}

IsError(d) == d.severity = "Error"

ErrorsOf(diagnostics) == SelectSeq(diagnostics, IsError)

BlockNumber(idx) == idx + 1

ZeroBasedLineNumber(err) == err.line

LineNumber(err) == err.line + 1

LineText(document, err) == Trim(LineAt(document, err.line))

ErrorBlock(document, err, idx) ==
  [number |-> BlockNumber(idx), message |-> err.message,
   line |-> LineNumber(err), text |-> LineText(document, err)]

ErrorContext(document, errors) ==
  [file |-> Basename(document.fileName),
   blocks |-> [k \in 1..Len(errors) |-> ErrorBlock(document, errors[k], k - 1)]]

ReturnsSilently == <<>>

\* The branch taken without an active editor: one post, then return.
ReplyNoEditor == <<ShowResult(NoActiveFile)>>

NoDiagnostics(document, errors) == Len(document.diagnostics) = 0

\* errors.length === 0
NoErrors(document, errors) == Len(errors) = 0

ReplyNoErrorsAndGoOn(document, errors) ==
  <<ShowResult(NoErrorsFound), AnalyzeWithAI(ErrorContext(document, errors))>>

\* The branch taken without errors: one post, then return.
ReplyNoErrors(document, errors) == <<ShowResult(NoErrorsFound)>>

\* _analyzeCurrentFile: the messages it posts, given what activeTextEditor reads.
AnalyzeCurrentFile(editor) ==
  IF ~view THEN <<>>
  ELSE IF editor = <<>> THEN ReplyNoEditor
  ELSE LET document == editor[1]
           errors == ErrorsOf(document.diagnostics)
       IN IF NoErrors(document, errors) THEN ReplyNoErrors(document, errors)
          ELSE <<AnalyzeWithAI(ErrorContext(document, errors))>>

\* The onDidReceiveMessage listener's switch.
HostPosts(message, editor) ==
  IF message.command = "analyzeErrors" THEN AnalyzeCurrentFile(editor) ELSE <<>>

\* The state of a document whose module script has not run yet.
FreshDocument ==
  /\ scriptLoaded' = FALSE
  /\ generator' = FALSE
  /\ isInitialized' = FALSE
  /\ initAttempts' = 0
  /\ btnDisabled' = FALSE
  /\ btnText' = "Analyze Errors"
  /\ btnOnclick' = "analyzeErrors"
  /\ statusEl' = Status("", 0)
  /\ resultEl' = PlainResult("")
  /\ pipelineCalls' = 0
  /\ retryTimers' = 0
  /\ clearTimers' = 0
  /\ analyses' = <<>>
  /\ retryClicks' = 0

\* resolveWebviewView: stores the view and gives it a new document. Messages on
\* their way to the replaced document are lost; those it had already sent are
\* still handled by the host, whose replies go to this._view.
ResolveWebviewView ==
  /\ view' = TRUE
  /\ toWeb' = <<>>
  /\ FreshDocument
  /\ UNCHANGED <<toHost, lastCall>>

\* The onDidReceiveMessage listener handles the next message of the webview,
\* activeTextEditor reading as editor.
HostHandle(editor) ==
  /\ toHost # <<>>
  /\ toWeb' = toWeb \o HostPosts(Head(toHost), editor)
  /\ toHost' = Tail(toHost)
  /\ UNCHANGED <<view, domVars, scriptVars>>

HostReceive ==
  /\ \E editor \in FewDiagnosticsEditors : HostHandle(editor)
  /\ UNCHANGED lastCall

\* The same step, with the history of what the call read and posted.
HostReceiveObserved ==
  \E editor \in Editors :
    /\ HostHandle(editor)
    /\ lastCall' = [command |-> Head(toHost).command, editor |-> editor,
                    posted |-> HostPosts(Head(toHost), editor)]

\* Commands the webview's script never sends.
OtherCommands == {"refresh"}

\* The listener called with a message of another command: its switch has no
\* case for it.
HostReceiveOther ==
  /\ view
  /\ \E command \in OtherCommands, editor \in FewDiagnosticsEditors :
       LET posted == HostPosts([command |-> command], editor)
       IN /\ toWeb' = toWeb \o posted
          /\ lastCall' = [command |-> command, editor |-> editor, posted |-> posted]
  /\ UNCHANGED <<view, toHost, domVars, scriptVars>>

\* ----------------------------------------------------------- the webview
ShouldRetryOnceMore(attempts) == attempts <= MAX_ATTEMPTS

\* initAttempts < MAX_ATTEMPTS
ShouldRetry(attempts) == attempts < MAX_ATTEMPTS

AttemptsKept == initAttempts

\* initAttempts = 0 in the retry handler.
AttemptsReset == 0

AlwaysReady == TRUE

\* The listener's test of isInitialized.
ModelReady == isInitialized

InitModelLeavesButton(attempts) ==
  IF isInitialized
  THEN /\ initAttempts' = attempts
       /\ UNCHANGED <<statusEl, btnDisabled, pipelineCalls>>
  ELSE /\ initAttempts' = attempts + 1
       /\ statusEl' = Status("Loading AI model", attempts + 1)
       /\ btnDisabled' = btnDisabled
       /\ pipelineCalls' = pipelineCalls + 1

\* initModel up to its await, called with initAttempts = attempts.
InitModel(attempts) ==
  IF isInitialized
  THEN /\ initAttempts' = attempts
       /\ UNCHANGED <<statusEl, btnDisabled, pipelineCalls>>
  ELSE /\ initAttempts' = attempts + 1
       /\ statusEl' = Status("Loading AI model", attempts + 1)
       /\ btnDisabled' = TRUE
       /\ pipelineCalls' = pipelineCalls + 1

\* The module script runs: initModel(), window.analyzeErrors, the listener.
ScriptStart ==
  /\ view
  /\ ~scriptLoaded
  /\ scriptLoaded' = TRUE
  /\ InitModel(initAttempts)
  /\ UNCHANGED <<hostVars, btnText, btnOnclick, resultEl, generator, isInitialized,
                 retryTimers, clearTimers, analyses, retryClicks>>

\* progress_callback of the pending pipeline call.
PipelineProgress ==
  /\ pipelineCalls > 0
  /\ \/ \E percent \in {0, 100} : statusEl' = Status("Downloading model", percent)
     \/ statusEl' = Status("Loading model into memory", 0)
  /\ UNCHANGED <<hostVars, btnDisabled, btnText, btnOnclick, resultEl, scriptVars>>

PipelineResolvesIntoLocal ==
  /\ pipelineCalls > 0
  /\ pipelineCalls' = pipelineCalls - 1
  /\ generator' = generator
  /\ isInitialized' = TRUE
  /\ statusEl' = Status("Model ready!", 0)
  /\ btnDisabled' = FALSE
  /\ clearTimers' = clearTimers + 1
  /\ UNCHANGED <<hostVars, btnText, btnOnclick, resultEl, scriptLoaded, initAttempts,
                 retryTimers, analyses, retryClicks>>

\* pipeline(...) resolves: the rest of the try block.
PipelineResolves ==
  /\ pipelineCalls > 0
  /\ pipelineCalls' = pipelineCalls - 1
  /\ generator' = TRUE
  /\ isInitialized' = TRUE
  /\ statusEl' = Status("Model ready!", 0)
  /\ btnDisabled' = FALSE
  /\ clearTimers' = clearTimers + 1
  /\ UNCHANGED <<hostVars, btnText, btnOnclick, resultEl, scriptLoaded, initAttempts,
                 retryTimers, analyses, retryClicks>>

\* pipeline(...) rejects: the catch block.
PipelineRejects ==
  /\ pipelineCalls > 0
  /\ pipelineCalls' = pipelineCalls - 1
  /\ IF ShouldRetry(initAttempts)
     THEN /\ statusEl' = Status("Error, retrying in 2 seconds", 0)
          /\ retryTimers' = retryTimers + 1
          /\ UNCHANGED <<btnDisabled, btnText, btnOnclick>>
     ELSE /\ statusEl' = Status("Failed to load model", MAX_ATTEMPTS)
          /\ btnDisabled' = FALSE
          /\ btnText' = "Retry Loading Model"
          /\ btnOnclick' = "retry"
          /\ UNCHANGED retryTimers
  /\ UNCHANGED <<hostVars, resultEl, scriptLoaded, generator, isInitialized,
                 initAttempts, clearTimers, analyses, retryClicks>>

\* The 2-second timer fires: initModel().
RetryTimerFires ==
  /\ retryTimers > 0
  /\ retryTimers' = retryTimers - 1
  /\ InitModel(initAttempts)
  /\ UNCHANGED <<hostVars, btnText, btnOnclick, resultEl, scriptLoaded, generator,
                 isInitialized, clearTimers, analyses, retryClicks>>

\* The 3-second timer fires: the status is cleared.
ClearTimerFires ==
  /\ clearTimers > 0
  /\ clearTimers' = clearTimers - 1
  /\ statusEl' = Status("", 0)
  /\ UNCHANGED <<hostVars, btnDisabled, btnText, btnOnclick, resultEl, scriptLoaded,
                 generator, isInitialized, initAttempts, pipelineCalls, retryTimers,
                 analyses, retryClicks>>

Pending == Len(toHost) + Len(toWeb) + Len(analyses)

\* A click on the enabled button whose handler is analyzeErrors(), with fewer
\* than limit requests under way.
ClickAnalyzeWithin(limit) ==
  /\ scriptLoaded
  /\ ~btnDisabled
  /\ btnOnclick = "analyzeErrors"
  /\ Pending < limit
  /\ toHost' = Append(toHost, AnalyzeErrorsMsg)
  /\ UNCHANGED <<view, toWeb, lastCall, domVars, scriptVars>>

ClickAnalyze == ClickAnalyzeWithin(MaxPending)

\* The click of a user who waits for the answer before clicking again.
ClickAnalyzeAlone == ClickAnalyzeWithin(1)

\* A click on the enabled button whose handler is the retry one.
ClickRetry ==
  /\ scriptLoaded
  /\ ~btnDisabled
  /\ btnOnclick = "retry"
  /\ btnText' = "Analyze Errors"
  /\ btnOnclick' = "analyzeErrors"
  /\ InitModel(AttemptsReset)
  /\ retryClicks' = 1
  /\ UNCHANGED <<hostVars, resultEl, scriptLoaded, generator, isInitialized,
                 retryTimers, clearTimers, analyses>>

\* A message reaches a document whose script has not registered the listener.
MessageUnheard ==
  /\ toWeb # <<>>
  /\ ~scriptLoaded
  /\ toWeb' = Tail(toWeb)
  /\ UNCHANGED <<view, toHost, lastCall, domVars, scriptVars>>

\* The message listener, case 'showResult'.
ReceiveShowResult ==
  /\ toWeb # <<>>
  /\ scriptLoaded
  /\ Head(toWeb).command = "showResult"
  /\ toWeb' = Tail(toWeb)
  /\ resultEl' = PlainResult(Head(toWeb).text)
  /\ UNCHANGED <<view, toHost, lastCall, btnDisabled, btnText, btnOnclick,
                 statusEl, scriptVars>>

\* The message listener, case 'analyzeWithAI', up to its await.
ReceiveAnalyzeWithAI ==
  /\ toWeb # <<>>
  /\ scriptLoaded
  /\ Head(toWeb).command = "analyzeWithAI"
  /\ toWeb' = Tail(toWeb)
  /\ IF ~ModelReady
     THEN /\ resultEl' = PlainResult(PleaseWait)
          /\ UNCHANGED <<btnDisabled, statusEl, analyses>>
     ELSE /\ btnDisabled' = TRUE
          /\ statusEl' = Status("Analyzing...", 0)
          /\ resultEl' = PlainResult("Processing...")
          /\ analyses' = Append(analyses, Head(toWeb).errorContext)
  /\ UNCHANGED <<view, toHost, lastCall, btnText, btnOnclick, scriptLoaded,
                 generator, isInitialized, initAttempts, pipelineCalls, retryTimers,
                 clearTimers, retryClicks>>

Remove(s, i) == SubSeq(s, 1, i - 1) \o SubSeq(s, i + 1, Len(s))

ButtonLeftAsIs == btnDisabled

\* analyzeBtn.disabled = false, at the end of the try block and of the catch block.
ButtonAfterAnalysis == FALSE

\* generator(...) returns for the i-th pending call: the rest of the try block.
GeneratorReturnsFor(i) ==
  /\ \E text \in GeneratedTexts : resultEl' = Result("AI Analysis", text, analyses[i])
  /\ analyses' = Remove(analyses, i)
  /\ statusEl' = Status("", 0)
  /\ btnDisabled' = ButtonAfterAnalysis
  /\ UNCHANGED <<hostVars, btnText, btnOnclick, scriptLoaded, generator, isInitialized,
                 initAttempts, pipelineCalls, retryTimers, clearTimers, retryClicks>>

\* generator(...) throws for the i-th pending call: the catch block.
GeneratorThrowsFor(i) ==
  /\ \E message \in ErrorMessages :
       resultEl' = Result("Error during analysis", message, NoContext)
  /\ analyses' = Remove(analyses, i)
  /\ statusEl' = Status("", 0)
  /\ btnDisabled' = ButtonAfterAnalysis
  /\ UNCHANGED <<hostVars, btnText, btnOnclick, scriptLoaded, generator, isInitialized,
                 initAttempts, pipelineCalls, retryTimers, clearTimers, retryClicks>>

GeneratorReturns == \E i \in DOMAIN analyses : GeneratorReturnsFor(i)

GeneratorThrows == \E i \in DOMAIN analyses : GeneratorThrowsFor(i)

\* A pending generator call on errorContext returns or throws.
GeneratorEnds(errorContext) ==
  \E i \in DOMAIN analyses :
    /\ analyses[i] = errorContext
    /\ GeneratorReturnsFor(i) \/ GeneratorThrowsFor(i)

\* ------------------------------------------------------- specification
Init ==
  /\ view = FALSE
  /\ toHost = <<>>
  /\ toWeb = <<>>
  /\ lastCall = [command |-> "", editor |-> <<>>, posted |-> <<>>]
  /\ scriptLoaded = FALSE
  /\ generator = FALSE
  /\ isInitialized = FALSE
  /\ initAttempts = 0
  /\ btnDisabled = FALSE
  /\ btnText = "Analyze Errors"
  /\ btnOnclick = "analyzeErrors"
  /\ statusEl = Status("", 0)
  /\ resultEl = PlainResult("")
  /\ pipelineCalls = 0
  /\ retryTimers = 0
  /\ clearTimers = 0
  /\ analyses = <<>>
  /\ retryClicks = 0

Next ==
  \/ ResolveWebviewView
  \/ HostReceive
  \/ ScriptStart
  \/ PipelineProgress
  \/ PipelineResolves
  \/ PipelineRejects
  \/ RetryTimerFires
  \/ ClearTimerFires
  \/ ClickAnalyze
  \/ ClickRetry
  \/ MessageUnheard
  \/ ReceiveShowResult
  \/ ReceiveAnalyzeWithAI
  \/ GeneratorReturns
  \/ GeneratorThrows

Spec == Init /\ [][Next]_vars

\* The errorContexts the host can send under Spec.
SentContexts ==
  {ErrorContext(e[1], ErrorsOf(e[1].diagnostics)) :
     e \in {x \in FewDiagnosticsEditors : x # <<>> /\ ErrorsOf(x[1].diagnostics) # <<>>}}

\* Spec with every pending generator call returning or throwing in the end.
LiveSpec == Spec /\ \A c \in SentContexts : WF_vars(GeneratorEnds(c))

\* The host's handler observed under every editor input. It keeps no state
\* between calls, so it is driven by a webview whose model loads, whose analyses
\* return and whose user asks for one analysis at a time.
NextHost ==
  \/ ResolveWebviewView
  \/ HostReceiveOther
  \/ ScriptStart
  \/ PipelineResolves
  \/ ClickAnalyzeAlone
  \/ HostReceiveObserved
  \/ ReceiveShowResult
  \/ ReceiveAnalyzeWithAI
  \/ GeneratorReturns

SpecHost == Init /\ [][NextHost]_vars

\* --------------------------------------------------------------- claims
\* What the latest observed call of the listener read and posted.
Handled == lastCall.command = "analyzeErrors"
ReadDiagnostics == lastCall.editor[1].diagnostics
SentBlocks == lastCall.posted[1].errorContext.blocks
SentAnalysis ==
  /\ Handled
  /\ lastCall.editor # <<>>
  /\ \E i \in DOMAIN lastCall.posted : lastCall.posted[i].command = "analyzeWithAI"

ErrorPositions(ds) == {i \in DOMAIN ds : ds[i].severity = "Error"}
OtherPositions(ds) == {i \in DOMAIN ds : ds[i].severity \in {"Warning", "Information", "Hint"}}

\* Block b reports diagnostic d.
Reports(b, d) == b.message = d.message /\ b.line = d.line + 1

\* C1: when a handled analyzeErrors request with an active editor sends
\* analyzeWithAI, the blocks of its errorContext correspond one to one to the
\* diagnostics of severity Error (every block reports its own Error diagnostic,
\* every Error diagnostic has its own block), so that no block is left for a
\* diagnostic of another severity.
C1_ErrorsOnly ==
  SentAnalysis =>
    /\ Len(lastCall.posted) = 1
    /\ Len(SentBlocks) = Cardinality(ErrorPositions(ReadDiagnostics))
    /\ Len(SentBlocks) + Cardinality(OtherPositions(ReadDiagnostics)) = Len(ReadDiagnostics)
    /\ \E f \in [DOMAIN SentBlocks -> ErrorPositions(ReadDiagnostics)] :
         /\ \A j, k \in DOMAIN SentBlocks : j # k => f[j] # f[k]
         /\ \A k \in DOMAIN SentBlocks : Reports(SentBlocks[k], ReadDiagnostics[f[k]])

\* A request whose document had an Error and a diagnostic of another severity
\* was answered with a single block.
C1_Witness ==
  /\ SentAnalysis
  /\ ErrorPositions(ReadDiagnostics) # {}
  /\ OtherPositions(ReadDiagnostics) # {}
  /\ Len(SentBlocks) = 1

\* The position in ds of its k-th diagnostic of severity Error.
KthError(ds, k) ==
  CHOOSE i \in ErrorPositions(ds) :
    Cardinality({j \in ErrorPositions(ds) : j <= i}) = k

AllBlank(s) == \A i \in DOMAIN s : s[i] \in WhiteSpace

\* t is line with the blanks at its two ends removed, and only those.
IsTrimmed(t, line) ==
  /\ t = <<>> \/ (t[1] \notin WhiteSpace /\ t[Len(t)] \notin WhiteSpace)
  /\ \E a \in 0..Len(line) :
       /\ a + Len(t) <= Len(line)
       /\ SubSeq(line, a + 1, a + Len(t)) = t
       /\ AllBlank(SubSeq(line, 1, a))
       /\ AllBlank(SubSeq(line, a + Len(t) + 1, Len(line)))

\* C2: the blocks are numbered 1..N in the order in which the query returned
\* the errors: the k-th block has number k, the message of the k-th Error
\* diagnostic, its 0-based start line plus 1, and the trimmed text of that line.
C2_NumberingAndOrder ==
  SentAnalysis =>
    \A k \in DOMAIN SentBlocks :
      k <= Cardinality(ErrorPositions(ReadDiagnostics)) =>
        LET d == ReadDiagnostics[KthError(ReadDiagnostics, k)]
        IN /\ SentBlocks[k].number = k
           /\ SentBlocks[k].message = d.message
           /\ SentBlocks[k].line = d.line + 1
           /\ IsTrimmed(SentBlocks[k].text, lastCall.editor[1].lines[d.line + 1])

\* Two errors returned in descending line order were reported in that order,
\* each with the text of its own line.
C2_Witness ==
  /\ SentAnalysis
  /\ Len(SentBlocks) = 2
  /\ SentBlocks[1].number = 1 /\ SentBlocks[1].line = 2 /\ SentBlocks[1].text = <<"c">>
  /\ SentBlocks[2].number = 2 /\ SentBlocks[2].line = 1
  /\ SentBlocks[2].text = <<"a", " ", "b">>

Posted(message) == \E i \in DOMAIN lastCall.posted : lastCall.posted[i] = message
PostedCommand(command) ==
  \E i \in DOMAIN lastCall.posted : lastCall.posted[i].command = command

\* C3: a handled analyzeErrors request posts the 'No active file' showResult
\* if and only if there is no active editor, and then it posts nothing else.
C3_NoActiveEditor ==
  Handled =>
    /\ Posted(ShowResult(NoActiveFile)) <=> lastCall.editor = <<>>
    /\ lastCall.editor = <<>> => lastCall.posted = <<ShowResult(NoActiveFile)>>

C3_Witness ==
  /\ Handled
  /\ lastCall.editor = <<>>
  /\ lastCall.posted = <<ShowResult(NoActiveFile)>>

\* C4: a handled analyzeErrors request posts the 'No errors found' showResult
\* if and only if there is an active editor whose document has no diagnostic of
\* severity Error, and then it posts no analyzeWithAI.
C4_NoErrors ==
  Handled =>
    LET none == /\ lastCall.editor # <<>>
                /\ ErrorPositions(ReadDiagnostics) = {}
    IN /\ Posted(ShowResult(NoErrorsFound)) <=> none
       /\ none => ~PostedCommand("analyzeWithAI")

\* A document with diagnostics, none of them an Error, was answered 'no errors'.
C4_Witness ==
  /\ Handled
  /\ lastCall.editor # <<>>
  /\ Len(ReadDiagnostics) = 2
  /\ ErrorPositions(ReadDiagnostics) = {}
  /\ lastCall.posted = <<ShowResult(NoErrorsFound)>>

\* C5: a load cycle attempts the pipeline at most MAX_ATTEMPTS times; a failed
\* attempt numbered below MAX_ATTEMPTS schedules exactly one retry timer, whose
\* firing starts the next attempt; the failure of attempt MAX_ATTEMPTS schedules
\* none and leaves the button enabled, labelled 'Retry Loading Model', with the
\* retry handler; while that control is shown no attempt is pending or scheduled.
C5_RetryPolicy ==
  /\ [](/\ initAttempts \in 0..MAX_ATTEMPTS
        /\ pipelineCalls > 0 => initAttempts >= 1)
  /\ [](btnOnclick = "retry" =>
          /\ initAttempts = MAX_ATTEMPTS
          /\ pipelineCalls = 0 /\ retryTimers = 0
          /\ ~btnDisabled /\ btnText = "Retry Loading Model")
  /\ [][PipelineRejects /\ initAttempts < MAX_ATTEMPTS =>
          /\ retryTimers' = retryTimers + 1
          /\ pipelineCalls' = pipelineCalls - 1
          /\ UNCHANGED <<initAttempts, btnDisabled, btnText, btnOnclick>>]_vars
  /\ [][PipelineRejects /\ initAttempts >= MAX_ATTEMPTS =>
          /\ retryTimers' = retryTimers
          /\ pipelineCalls' = pipelineCalls - 1
          /\ ~btnDisabled' /\ btnText' = "Retry Loading Model" /\ btnOnclick' = "retry"]_vars
  /\ [][RetryTimerFires =>
          /\ initAttempts' = initAttempts + 1
          /\ pipelineCalls' = pipelineCalls + 1
          /\ retryTimers' = retryTimers - 1]_vars

\* The third attempt of the first load cycle has failed.
C5_Witness ==
  /\ retryClicks = 0
  /\ initAttempts = MAX_ATTEMPTS
  /\ btnOnclick = "retry" /\ btnText = "Retry Loading Model" /\ ~btnDisabled
  /\ statusEl = Status("Failed to load model", MAX_ATTEMPTS)

InFlight(errorContext) == \E i \in DOMAIN analyses : analyses[i] = errorContext

StatusCleared == statusEl = Status("", 0)

AnalysisShown(errorContext) ==
  \E text \in GeneratedTexts : resultEl = Result("AI Analysis", text, errorContext)

AnalysisErrorShown ==
  \E message \in ErrorMessages : resultEl = Result("Error during analysis", message, NoContext)

\* C6: every analysis started for an analyzeWithAI message comes, if its
\* generator call returns or throws and the document is not replaced first, to
\* a state where the result shows the AI analysis followed by that message's
\* errorContext, or the analysis error, with the status cleared and the button
\* enabled; and every return or throw of the generator produces that state.
C6_ResultShown ==
  /\ \A c \in SentContexts :
       InFlight(c) ~>
         \/ /\ AnalysisShown(c) \/ AnalysisErrorShown
            /\ StatusCleared
            /\ ~btnDisabled
         \/ ~scriptLoaded
  /\ [][GeneratorReturns \/ GeneratorThrows =>
          /\ \/ \E c \in SentContexts : InFlight(c) /\ AnalysisShown(c)'
             \/ AnalysisErrorShown'
          /\ StatusCleared'
          /\ ~btnDisabled']_vars

\* An analysis has returned: its text and its errors are shown.
C6_Witness ==
  /\ \E c \in SentContexts : AnalysisShown(c) /\ Len(c.blocks) = 1
  /\ StatusCleared
  /\ ~btnDisabled
  /\ analyses = <<>>

C8_OneAnalysisAtATime ==
  /\ Len(analyses) <= 1
  /\ analyses # <<>> => btnDisabled

\* C9: no generator call is pending unless the model is initialized, and an
\* analyzeWithAI message received before that only sets the result text.
C9_NotBeforeInitialized ==
  /\ [](analyses # <<>> => isInitialized /\ generator)
  /\ [][ReceiveAnalyzeWithAI /\ ~isInitialized =>
          /\ resultEl' = PlainResult(PleaseWait)
          /\ UNCHANGED <<btnDisabled, btnText, btnOnclick, statusEl, initAttempts,
                         isInitialized, generator, analyses, pipelineCalls>>]_vars

\* An analyzeWithAI message was answered 'please wait' while the model loads.
C9_Witness ==
  /\ ~isInitialized
  /\ pipelineCalls > 0
  /\ resultEl = PlainResult(PleaseWait)

\* C10: the click on the retry control leaves initAttempts at 1 (reset to 0,
\* then the first attempt of the new cycle), the label 'Analyze Errors' and the
\* analyzeErrors handler, starts a pipeline call with the button disabled and
\* sends nothing to the host; attempts are numbered one by one, so the new
\* cycle comes back to the retry control only after attempt MAX_ATTEMPTS.
C10_ManualRetry ==
  /\ [][ClickRetry =>
          /\ initAttempts' = 1
          /\ btnText' = "Analyze Errors" /\ btnOnclick' = "analyzeErrors"
          /\ btnDisabled'
          /\ pipelineCalls' = pipelineCalls + 1
          /\ statusEl' = Status("Loading AI model", 1)
          /\ toHost' = toHost]_vars
  /\ [][initAttempts' # initAttempts =>
          \/ initAttempts' = initAttempts + 1
          \/ ClickRetry
          \/ ResolveWebviewView]_vars
  /\ [](retryClicks > 0 /\ btnOnclick = "retry" => initAttempts = MAX_ATTEMPTS)

\* The cycle started by a retry click has used its three attempts.
C10_Witness ==
  /\ retryClicks > 0
  /\ btnOnclick = "retry"
  /\ initAttempts = MAX_ATTEMPTS

\* A load attempt is under way: its pipeline call is pending, or the timer that
\* starts the next one is.
LoadUnderWay == pipelineCalls + retryTimers

\* C11: initAttempts stays within 0..MAX_ATTEMPTS, at most one load attempt is
\* in flight or pending on a retry timer, and the button is disabled while one
\* is (from the start of an attempt, through the retry wait, to success or
\* the final failure).
C11_OneLoadAtATime ==
  /\ initAttempts \in 0..MAX_ATTEMPTS
  /\ LoadUnderWay <= 1
  /\ LoadUnderWay = 1 => btnDisabled /\ ~isInitialized /\ initAttempts >= 1
  /\ scriptLoaded /\ LoadUnderWay = 0 /\ ~isInitialized =>
       ~btnDisabled /\ btnOnclick = "retry" /\ initAttempts = MAX_ATTEMPTS

\* The retry wait after the second failure of a cycle started by a retry click.
C11_Witness ==
  /\ retryClicks > 0
  /\ retryTimers = 1
  /\ pipelineCalls = 0
  /\ initAttempts = 2
  /\ btnDisabled

\* A call of initModel: at the script's start, from the retry timer, or from
\* the retry handler.
InitModelCalled == ScriptStart \/ RetryTimerFires \/ ClickRetry

\* C12: within a webview document isInitialized, once true, stays true (only a
\* new document, whose script starts over, has it false again); it is true
\* only with the generator assigned; and once it is true no call of initModel
\* is left to come (no pipeline call or retry timer is pending and the button
\* does not carry the retry handler), so that none invokes the pipeline,
\* changes initAttempts or touches the button or the status.
C12_InitializedForGood ==
  /\ [][isInitialized => isInitialized' \/ ResolveWebviewView]_vars
  /\ [](isInitialized => generator)
  /\ [](isInitialized =>
          /\ pipelineCalls = 0 /\ retryTimers = 0
          /\ btnOnclick = "analyzeErrors" /\ btnText = "Analyze Errors"
          /\ initAttempts \in 1..MAX_ATTEMPTS)
  /\ [][isInitialized /\ isInitialized' =>
          UNCHANGED <<initAttempts, pipelineCalls, retryTimers, btnText, btnOnclick, generator>>]_vars
  /\ [][isInitialized => ~InitModelCalled]_vars

\* The model was initialized at the third attempt and has since run an analysis.
C12_Witness ==
  /\ isInitialized /\ generator
  /\ initAttempts = MAX_ATTEMPTS
  /\ \E c \in SentContexts : AnalysisShown(c)
  /\ clearTimers = 0

\* C13: while a generator call is pending the status shows 'Analyzing...'; the
\* 3-second timer started at 'Model ready!' does not erase it.
C13_AnalyzingShown ==
  analyses # <<>> => statusEl = Status("Analyzing...", 0)

====
